---- MODULE Spec2Model ----
(***************************************************************************)
(* A model of src/run_server.py: the one-shot generator that reads a wine  *)
(* price list from a spreadsheet, groups it by category, computes the      *)
(* winery's age with its Russian word form, renders a template and prints  *)
(* a report.                                                               *)
(*                                                                         *)
(* The module language admits ASCII strings only, so the Cyrillic literals *)
(* of the source are transliterated:                                       *)
(*   "Категория" -> "Kategoriya"   "Название" -> "Nazvanie"                *)
(*   "Сорт"      -> "Sort"         "Цена"     -> "Tsena"                   *)
(*   "Картинка"  -> "Kartinka"     "Акция"    -> "Aktsiya"                 *)
(*   "год" -> "god"   "года" -> "goda"   "лет" -> "let"                    *)
(***************************************************************************)
EXTENDS Integers, Sequences, FiniteSets, TLC

VARIABLES
    foundation_year,   \* config['foundation_year'] (--foundation-year)
    current_year,      \* config['current_year'] (datetime.now().year)
    input_file,        \* what config['excel_filepath'] refers to on disk
    template_file,     \* what config['template_filepath'] resolves to
    output_file,       \* what config['output_filepath'] holds on disk
    output_at_start,   \* output_file as it was when the run began
    pc,                \* position of main()
    years,             \* local `years` of main
    year_word,         \* local `year_word` of main
    catalog_df,        \* local `catalog_df` of main (the DataFrame)
    catalog,           \* local `catalog` of main (insertion-ordered dict)
    context,           \* the template context built by render_catalog_page
    html,              \* the text render_template returned
    stdout,            \* the lines printed, as message records
    report,            \* what show_report printed
    exit_code,         \* process exit status, -1 while running
    trace,             \* the stages main has entered, in order
    completed,         \* the stages that returned without raising
    parse_attempts,    \* number of pd.read_excel calls made
    output_opens       \* number of open(output_filepath, 'w') calls made

vars == <<foundation_year, current_year, input_file, template_file, output_file,
          output_at_start, pc, years, year_word, catalog_df, catalog, context,
          html, stdout, report, exit_code, trace, completed, parse_attempts,
          output_opens>>

(***************************************************************************)
(* Bounds of the model.                                                    *)
(***************************************************************************)
YearSpan == 115        \* foundation years range over FOUNDATION_YEAR +- YearSpan
ClockSpan == 2         \* current years range over FOUNDATION_YEAR .. + ClockSpan
MaxRows == 4           \* rows of a sheet in the grouping specification
MaxCellRows == 2       \* rows of a sheet in the blank-cell specification
MaxColumnRows == 1     \* rows of a sheet in the column specification

FOUNDATION_YEAR == 1920

(***************************************************************************)
(* General helpers.                                                        *)
(***************************************************************************)
Range(s) == {s[i] : i \in DOMAIN s}

IsPrefix(s, t) == Len(s) <= Len(t) /\ SubSeq(t, 1, Len(s)) = s

SeqsUpTo(S, n) == UNION {[1..k -> S] : k \in 0..n}

Last(s) == s[Len(s)]

(***************************************************************************)
(* Column headers and cells.                                               *)
(***************************************************************************)
required_columns == {"Kategoriya", "Nazvanie", "Tsena", "Kartinka"}

OptionalColumns == {"Sort", "Aktsiya"}

\* A header the program does not know about.
ForeignColumns == {"Strana"}

\* The raw cell texts pandas is told to read as NA.
na_values == {"", " ", "N/A", "NULL"}

\* pandas' float NaN, the marker of a missing cell; no raw text equals it.
NaN == "<NaN>"

RawOptionalCells == na_values \cup {"Merlot"}

Categories == {"Belye", "Krasnye", "Napitki"}

Names == {"X", "Y"}

\* A row of the sheet over the headers `cols`.
RawRow(cols, cat, name, sort, promo) ==
    [c \in cols |->
        CASE c = "Kategoriya" -> cat
          [] c = "Nazvanie" -> name
          [] c = "Sort" -> sort
          [] c = "Tsena" -> "350"
          [] c = "Kartinka" -> "img.png"
          [] c = "Aktsiya" -> promo
          [] OTHER -> "Italiya"]

RawRows(cols, cats, names, cells) ==
    {RawRow(cols, cat, name, sort, promo) :
        cat \in cats, name \in names, sort \in cells, promo \in cells}

Sheet(cols, rows) == [kind |-> "sheet", columns |-> cols, rows |-> rows]

Sheets(colsets, cats, names, cells, maxrows) ==
    UNION {{Sheet(cols, rows) : rows \in SeqsUpTo(RawRows(cols, cats, names, cells), maxrows)} :
            cols \in colsets}

\* Paths that do not hold a readable spreadsheet.
NonSheetFiles ==
    {[kind |-> k, columns |-> {}, rows |-> <<>>] :
        k \in {"missing", "empty", "malformed", "unreadable"}}

NoFrame == [columns |-> {}, rows |-> <<>>]

Absent == [exists |-> FALSE, text |-> <<>>]

OldPage == [exists |-> TRUE, text |-> <<"old page">>]

(***************************************************************************)
(* calculate_winery_age and get_year_word.                                 *)
(***************************************************************************)
\* A remainder that keeps the sign of the dividend, as in C.
TruncMod(a, b) == IF a >= 0 THEN a % b ELSE -((-a) % b)

\* Python's %: for b > 0 the remainder of floor division, in 0..b-1.
PyMod(a, b) == a - b * (a \div b)

calculate_winery_age_clamped(foundation, current) ==
    IF current - foundation < 0 THEN 0 ELSE current - foundation

calculate_winery_age(foundation, current) == current - foundation

get_year_word(n) ==
    IF 11 <= PyMod(n, 100) /\ PyMod(n, 100) <= 14
    THEN "let"
    ELSE LET last_digit == PyMod(n, 10)
         IN IF last_digit = 1 THEN "god"
            ELSE IF 2 <= last_digit /\ last_digit <= 4 THEN "goda"
            ELSE "let"

(***************************************************************************)
(* read_excel_file.                                                        *)
(***************************************************************************)
is_file(file) == file.kind # "missing"

ParseCell(v) == IF v \in na_values THEN NaN ELSE v

\* pd.read_excel(file_path, na_values=[...], keep_default_na=False)
pd_read_excel(file) ==
    CASE file.kind = "missing" -> [raised |-> "FileNotFoundError", df |-> NoFrame]
      [] file.kind = "empty" -> [raised |-> "EmptyDataError", df |-> NoFrame]
      [] file.kind = "malformed" -> [raised |-> "ParserError", df |-> NoFrame]
      [] file.kind = "unreadable" -> [raised |-> "ValueError", df |-> NoFrame]
      [] OTHER ->
           [raised |-> "None",
            df |-> [columns |-> file.columns,
                    rows |-> [i \in DOMAIN file.rows |->
                                [c \in file.columns |-> ParseCell(file.rows[i][c])]]]]

read_excel_file_unchecked(file) ==
    [raised |-> pd_read_excel(file).raised, parsed |-> TRUE, df |-> pd_read_excel(file).df]

read_excel_file(file) ==
    IF ~is_file(file)
    THEN [raised |-> "FileNotFoundError", parsed |-> FALSE, df |-> NoFrame]
    ELSE [raised |-> pd_read_excel(file).raised, parsed |-> TRUE,
          df |-> pd_read_excel(file).df]

(***************************************************************************)
(* validate_catalog_columns.                                               *)
(***************************************************************************)
\* Reports one missing column only.
validate_catalog_columns_first(df) ==
    LET missing == required_columns \ df.columns
    IN IF missing # {}
       THEN [raised |-> "KeyError", detail |-> {CHOOSE c \in missing : TRUE}]
       ELSE [raised |-> "None", detail |-> {}]

validate_catalog_columns(df) ==
    LET missing == required_columns \ df.columns
    IN IF missing # {}
       THEN [raised |-> "KeyError", detail |-> missing]
       ELSE [raised |-> "None", detail |-> {}]

(***************************************************************************)
(* extract_wine and group_by_category.                                     *)
(***************************************************************************)
\* row.get(key, default)
row_get(row, key, default) == IF key \in DOMAIN row THEN row[key] ELSE default

extract_wine(row) ==
    [name |-> row["Nazvanie"],
     grape_type |-> row_get(row, "Sort", ""),
     price |-> row["Tsena"],
     image |-> row["Kartinka"],
     promotion |-> row_get(row, "Aktsiya", "")]

HasKey(grouped, key) == \E j \in DOMAIN grouped : grouped[j].key = key

\* grouped[key] = [wine]: the list is replaced instead of extended.
defaultdict_overwrite(grouped, key, wine) ==
    IF HasKey(grouped, key)
    THEN [j \in DOMAIN grouped |->
            IF grouped[j].key = key
            THEN [grouped[j] EXCEPT !.items = <<wine>>]
            ELSE grouped[j]]
    ELSE Append(grouped, [key |-> key, items |-> <<wine>>])

\* grouped[key].append(wine) on a defaultdict(list): a key seen for the first
\* time is inserted after the existing keys with an empty list.
defaultdict_append(grouped, key, wine) ==
    IF HasKey(grouped, key)
    THEN [j \in DOMAIN grouped |->
            IF grouped[j].key = key
            THEN [grouped[j] EXCEPT !.items = Append(@, wine)]
            ELSE grouped[j]]
    ELSE Append(grouped, [key |-> key, items |-> <<wine>>])

RECURSIVE iterrows(_, _, _)
iterrows(rows, i, grouped) ==
    IF i > Len(rows)
    THEN grouped
    ELSE iterrows(rows, i + 1,
                  defaultdict_append(grouped, rows[i]["Kategoriya"], extract_wine(rows[i])))

RECURSIVE iterrows_backwards(_, _, _)
iterrows_backwards(rows, i, grouped) ==
    IF i < 1
    THEN grouped
    ELSE iterrows_backwards(rows, i - 1,
                  defaultdict_append(grouped, rows[i]["Kategoriya"], extract_wine(rows[i])))

group_by_category_backwards(df) == iterrows_backwards(df.rows, Len(df.rows), <<>>)

group_by_category(df) == iterrows(df.rows, 1, <<>>)

(***************************************************************************)
(* Rendering and saving.                                                   *)
(***************************************************************************)
RECURSIVE ItemsText(_)
ItemsText(items) ==
    IF items = <<>> THEN <<>>
    ELSE <<Head(items).name, Head(items).price>> \o ItemsText(Tail(items))

RECURSIVE WinesText(_)
WinesText(wines) ==
    IF wines = <<>> THEN <<>>
    ELSE <<Head(wines).key>> \o ItemsText(Head(wines).items) \o WinesText(Tail(wines))

\* env.get_template(template_filepath).render(**context); the template is a
\* collaborator, standing here for one that prints every binding it is given.
render_template(template, ctx) ==
    CASE template = "missing" -> [raised |-> "TemplateNotFound", text |-> <<>>]
      [] template = "broken" -> [raised |-> "TemplateSyntaxError", text |-> <<>>]
      [] OTHER ->
           [raised |-> "None",
            text |-> <<ToString(ctx.winery_years), ctx.year_word>> \o WinesText(ctx.wines)]

\* open(path, 'a'): the old content is kept.
open_append(file) == [exists |-> TRUE, text |-> file.text]

\* open(path, 'w'): the file is created or truncated.
open_write(file) == [exists |-> TRUE, text |-> <<>>]

\* file.write(content) of which the first k units reach the disk.
file_write(file, content, k) == [file EXCEPT !.text = @ \o SubSeq(content, 1, k)]

(***************************************************************************)
(* count_wines and print_category_stats.                                   *)
(***************************************************************************)
RECURSIVE count_wines(_)
count_wines(cat) ==
    IF cat = <<>> THEN 0 ELSE Len(Head(cat).items) + count_wines(Tail(cat))

print_category_stats(cat) == [j \in DOMAIN cat |-> <<cat[j].key, Len(cat[j].items)>>]

(***************************************************************************)
(* The except clauses of main.                                             *)
(***************************************************************************)
Message(kind, detail) == [kind |-> kind, detail |-> detail]

Handled(exc, detail) ==
    [next |-> "aborted", exit |-> 0, out |-> <<Message(exc, detail)>>]

\* An exception no clause names leaves main: traceback, exit status 1.
Uncaught(exc) ==
    [next |-> "crashed", exit |-> 1, out |-> <<Message("Traceback", {})>>]

\* The KeyError clause without its return.
except_load_falls_through(exc, detail) ==
    IF exc = "KeyError"
    THEN [next |-> "render", exit |-> -1, out |-> <<Message(exc, detail)>>]
    ELSE IF exc \in {"FileNotFoundError", "EmptyDataError", "ParserError"}
    THEN Handled(exc, detail)
    ELSE Uncaught(exc)

\* except FileNotFoundError / EmptyDataError / ParserError / KeyError: print, return
except_load(exc, detail) ==
    IF exc \in {"FileNotFoundError", "EmptyDataError", "ParserError", "KeyError"}
    THEN Handled(exc, detail)
    ELSE Uncaught(exc)

\* except TemplateNotFound / (OSError, IOError): print, return
except_render(exc, detail) ==
    IF exc \in {"TemplateNotFound", "OSError"}
    THEN Handled(exc, detail)
    ELSE Uncaught(exc)

(***************************************************************************)
(* The initial states: the configuration is resolved, nothing has run.     *)
(***************************************************************************)
InitOver(foundations, clocks, files, templates, outputs) ==
    /\ foundation_year \in foundations
    /\ current_year \in clocks
    /\ input_file \in files
    /\ template_file \in templates
    /\ output_file \in outputs
    /\ output_at_start = output_file
    /\ pc = "start"
    /\ years = 0
    /\ year_word = ""
    /\ catalog_df = NoFrame
    /\ catalog = <<>>
    /\ context = <<>>
    /\ html = <<>>
    /\ stdout = <<>>
    /\ report = <<>>
    /\ exit_code = -1
    /\ trace = <<>>
    /\ completed = <<>>
    /\ parse_attempts = 0
    /\ output_opens = 0

Templates == {"ok", "missing", "broken"}

\* Any header set, default cells: the column checks and the failure paths.
Init ==
    InitOver({FOUNDATION_YEAR}, {FOUNDATION_YEAR + 103},
             NonSheetFiles \cup
               Sheets(SUBSET (required_columns \cup OptionalColumns \cup ForeignColumns),
                      {"Belye"}, {"X"}, {"Merlot"}, MaxColumnRows),
             Templates, {Absent, OldPage})

\* A wide range of ages, negative ones included.
InitYears ==
    InitOver((FOUNDATION_YEAR - YearSpan)..(FOUNDATION_YEAR + YearSpan),
             FOUNDATION_YEAR..(FOUNDATION_YEAR + ClockSpan),
             Sheets({required_columns \cup OptionalColumns}, {"Belye"}, {"X"},
                    {"Merlot"}, 1),
             {"ok"}, {Absent})

\* Rows of several categories in every order.
InitGroup ==
    InitOver({FOUNDATION_YEAR}, {FOUNDATION_YEAR + 103},
             Sheets({required_columns \cup OptionalColumns}, Categories, Names,
                    {"Merlot"}, MaxRows),
             {"ok"}, {Absent})

\* Optional columns present or absent, their cells blank or filled.
InitCells ==
    InitOver({FOUNDATION_YEAR}, {FOUNDATION_YEAR + 103},
             Sheets({required_columns \cup opt : opt \in SUBSET OptionalColumns},
                    {"Belye", "Krasnye"}, {"X"}, RawOptionalCells, MaxCellRows),
             {"ok"}, {Absent})

(***************************************************************************)
(* The stages of main, one action each.                                    *)
(***************************************************************************)
Enter(stage) == trace' = Append(trace, stage)

Complete(stage) == completed' = Append(completed, stage)

\* An except clause ran: what it printed, where main goes, how the process ends.
Raise(h) ==
    /\ stdout' = stdout \o h.out
    /\ pc' = h.next
    /\ exit_code' = h.exit
    /\ UNCHANGED completed

\* main, lines 113-135: configuration, banner, age and word form.
AgeStage ==
    /\ pc = "start"
    /\ Enter("age")
    /\ Complete("age")
    /\ years' = calculate_winery_age(foundation_year, current_year)
    /\ year_word' = get_year_word(years')
    /\ stdout' = Append(stdout, Message("start", {}))
    /\ pc' = "load"
    /\ UNCHANGED <<foundation_year, current_year, input_file, template_file,
                   output_file, output_at_start, catalog_df, catalog, context, html,
                   report, exit_code, parse_attempts, output_opens>>

\* main, line 139 and the except clauses: read_excel_file.
LoadStage ==
    /\ pc = "load"
    /\ Enter("load")
    /\ LET r == read_excel_file(input_file)
       IN /\ parse_attempts' = parse_attempts + (IF r.parsed THEN 1 ELSE 0)
          /\ IF r.raised = "None"
             THEN /\ catalog_df' = r.df
                  /\ Complete("load")
                  /\ pc' = "validate"
                  /\ UNCHANGED <<stdout, exit_code>>
             ELSE /\ Raise(except_load(r.raised, {}))
                  /\ UNCHANGED catalog_df
    /\ UNCHANGED <<foundation_year, current_year, input_file, template_file,
                   output_file, output_at_start, years, year_word, catalog, context,
                   html, report, output_opens>>

\* main, line 140 and the except clauses: validate_catalog_columns.
ValidateStage ==
    /\ pc = "validate"
    /\ Enter("validate")
    /\ LET r == validate_catalog_columns(catalog_df)
       IN IF r.raised = "None"
          THEN /\ Complete("validate")
               /\ pc' = "group"
               /\ UNCHANGED <<stdout, exit_code>>
          ELSE Raise(except_load(r.raised, r.detail))
    /\ UNCHANGED <<foundation_year, current_year, input_file, template_file,
                   output_file, output_at_start, years, year_word, catalog_df,
                   catalog, context, html, report, parse_attempts, output_opens>>

\* main, lines 141-142: group_by_category and the success line.
GroupStage ==
    /\ pc = "group"
    /\ Enter("group")
    /\ Complete("group")
    /\ catalog' = group_by_category(catalog_df)
    /\ stdout' = Append(stdout, Message("loaded", {}))
    /\ pc' = "render"
    /\ UNCHANGED <<foundation_year, current_year, input_file, template_file,
                   output_file, output_at_start, years, year_word, catalog_df,
                   context, html, report, exit_code, parse_attempts, output_opens>>

\* render_catalog_page, lines 87-89: the context and render_template.
RenderStage ==
    /\ pc = "render"
    /\ Enter("render")
    /\ LET ctx == [winery_years |-> years, year_word |-> year_word, wines |-> catalog]
           r == render_template(template_file, ctx)
       IN /\ context' = <<ctx>>
          /\ IF r.raised = "None"
             THEN /\ html' = r.text
                  /\ Complete("render")
                  /\ pc' = "save"
                  /\ UNCHANGED <<stdout, exit_code>>
             ELSE /\ Raise(except_render(r.raised, {}))
                  /\ UNCHANGED html
    /\ UNCHANGED <<foundation_year, current_year, input_file, template_file,
                   output_file, output_at_start, years, year_word, catalog_df,
                   catalog, report, parse_attempts, output_opens>>

\* render_catalog_page, line 90, and main, line 164: save_html.  The open may
\* be refused (the file stays as it was); once it has succeeded the file is
\* truncated, and a write that fails leaves the part that reached the disk.
SaveStage ==
    /\ pc = "save"
    /\ Enter("save")
    /\ output_opens' = output_opens + 1
    /\ \/ /\ output_file' = file_write(open_write(output_file), html, Len(html))
          /\ Complete("save")
          /\ stdout' = Append(stdout, Message("generated", {}))
          /\ pc' = "report"
          /\ UNCHANGED exit_code
       \/ /\ UNCHANGED output_file
          /\ Raise(except_render("OSError", {}))
       \/ \E k \in 0..Len(html) :
            /\ output_file' = file_write(open_write(output_file), html, k)
            /\ Raise(except_render("OSError", {}))
    /\ UNCHANGED <<foundation_year, current_year, input_file, template_file,
                   output_at_start, years, year_word, catalog_df, catalog, context,
                   html, report, parse_attempts>>

\* main, line 172: show_report, then main returns.
ReportStage ==
    /\ pc = "report"
    /\ Enter("report")
    /\ Complete("report")
    /\ report' = <<[years |-> years, year_word |-> year_word,
                    per_category |-> print_category_stats(catalog),
                    total |-> count_wines(catalog)]>>
    /\ stdout' = Append(stdout, Message("report", {}))
    /\ pc' = "done"
    /\ exit_code' = 0
    /\ UNCHANGED <<foundation_year, current_year, input_file, template_file,
                   output_file, output_at_start, years, year_word, catalog_df,
                   catalog, context, html, parse_attempts, output_opens>>

Next ==
    \/ AgeStage
    \/ LoadStage
    \/ ValidateStage
    \/ GroupStage
    \/ RenderStage
    \/ SaveStage
    \/ ReportStage

Spec == Init /\ [][Next]_vars

SpecYears == InitYears /\ [][Next]_vars

SpecGroup == InitGroup /\ [][Next]_vars

SpecCells == InitCells /\ [][Next]_vars

(***************************************************************************)
(* Vocabulary of the properties.                                           *)
(***************************************************************************)
StageOrder == <<"age", "load", "validate", "group", "render", "save", "report">>

Entered(stage) == stage \in Range(trace)

Succeeded(stage) == stage \in Range(completed)

\* The remainder of n by m that lies in 0..m-1, by its defining equation.
NonNegRem(n, m) == CHOOSE r \in 0..(m - 1) : \E q \in -20..20 : n = q * m + r

\* The agreement of the Russian word for "year" with a count.
RussianYearWord(n) ==
    IF NonNegRem(n, 100) \in 11..14 THEN "let"
    ELSE IF NonNegRem(n, 10) = 1 THEN "god"
    ELSE IF NonNegRem(n, 10) \in 2..4 THEN "goda"
    ELSE "let"

RECURSIVE SumCounts(_)
SumCounts(pairs) == IF pairs = <<>> THEN 0 ELSE Head(pairs)[2] + SumCounts(Tail(pairs))

\* The rows of `rows` whose category is `key`, in source order.
RowsOfCategory(rows, key) ==
    LET InCategory(r) == r["Kategoriya"] = key
    IN SelectSeq(rows, InCategory)

\* C1: for every integer age, negative ones included, the word is "let" when
\* the non-negative remainder by 100 is in 11..14, otherwise "god" for a
\* non-negative remainder by 10 of 1, "goda" for 2..4 and "let" for the rest;
\* it is always one of the three forms.
YearWordFollowsRule ==
    Succeeded("age") =>
        /\ year_word = RussianYearWord(years)
        /\ year_word \in {"god", "goda", "let"}

\* A negative age whose non-negative last digit is 1, outside the 11..14 band.
YearWordNegativeSingular ==
    /\ Succeeded("age")
    /\ years < 0
    /\ NonNegRem(years, 10) = 1
    /\ NonNegRem(years, 100) \notin 11..14
    /\ year_word = "god"

\* C2: the catalog's keys are the categories in order of first appearance in
\* the rows, and each key's items are exactly the wines of the rows of that
\* category, in source order.
GroupingIsStable ==
    Succeeded("group") =>
        LET rows == catalog_df.rows
            First(k) == CHOOSE i \in DOMAIN rows :
                            /\ rows[i]["Kategoriya"] = k
                            /\ \A h \in 1..(i - 1) : rows[h]["Kategoriya"] # k
        IN /\ {catalog[j].key : j \in DOMAIN catalog}
                = {rows[i]["Kategoriya"] : i \in DOMAIN rows}
           /\ \A a, b \in DOMAIN catalog :
                a < b => /\ catalog[a].key # catalog[b].key
                         /\ First(catalog[a].key) < First(catalog[b].key)
           /\ \A j \in DOMAIN catalog :
                LET src == RowsOfCategory(rows, catalog[j].key)
                IN catalog[j].items = [i \in DOMAIN src |-> extract_wine(src[i])]

\* Rows A, B, A with different wines: the interleaved case.
GroupingInterleaved ==
    /\ Succeeded("group")
    /\ Len(catalog_df.rows) = 3
    /\ catalog_df.rows[1]["Kategoriya"] = catalog_df.rows[3]["Kategoriya"]
    /\ catalog_df.rows[1]["Kategoriya"] # catalog_df.rows[2]["Kategoriya"]
    /\ catalog_df.rows[1]["Nazvanie"] # catalog_df.rows[3]["Nazvanie"]
    /\ Len(catalog) = 2
    /\ Len(catalog[1].items) = 2

\* C3: column validation fails exactly when a required column is not among
\* the observed headers, the error names every missing required column, and
\* the optional columns never matter.
ColumnsMissingNamesAll ==
    Entered("validate") =>
        LET missing == {"Kategoriya", "Nazvanie", "Tsena", "Kartinka"} \ input_file.columns
            failed == Last(trace) = "validate" /\ pc # "group"
        IN /\ failed <=> missing # {}
           /\ failed => /\ pc = "aborted"
                        /\ Last(stdout) = Message("KeyError", missing)

\* Two required columns are missing while both optional ones are present.
TwoColumnsMissing ==
    /\ pc = "aborted"
    /\ Last(trace) = "validate"
    /\ Cardinality(required_columns \ input_file.columns) = 2
    /\ OptionalColumns \subseteq input_file.columns

\* C4: an optional field that is blank in the source (its column absent, or
\* its cell blank, a space, "N/A" or "NULL") is the empty string in the wine.
BlankOptionalIsEmptyString ==
    Succeeded("group") =>
        \A j \in DOMAIN catalog :
            LET src == RowsOfCategory(input_file.rows, catalog[j].key)
                Blank(row, col) == col \notin DOMAIN row \/ row[col] \in na_values
            IN \A i \in DOMAIN catalog[j].items \cap DOMAIN src :
                /\ Blank(src[i], "Sort") => catalog[j].items[i].grape_type = ""
                /\ Blank(src[i], "Aktsiya") => catalog[j].items[i].promotion = ""

\* C5: a path that is not an existing file is never handed to the parser,
\* and the run ends with the not-found message.
MissingFileNeverParsed ==
    input_file.kind = "missing" =>
        /\ parse_attempts = 0
        /\ Entered("load") => /\ pc = "aborted"
                              /\ Last(trace) = "load"
                              /\ Last(stdout).kind = "FileNotFoundError"

\* The load stage ran on a missing path.
MissingFileReported ==
    /\ input_file.kind = "missing"
    /\ pc = "aborted"
    /\ Last(stdout).kind = "FileNotFoundError"

\* C6: the stages run in their fixed order, none skipped or repeated; a stage
\* is entered only when every earlier one succeeded, the report is printed
\* only after rendering and saving succeeded, and a failed stage is the last.
StagesStrictlySequential ==
    /\ IsPrefix(completed, StageOrder)
    /\ IsPrefix(trace, StageOrder)
    /\ \/ pc \notin {"aborted", "crashed"} /\ trace = completed
       \/ /\ pc \in {"aborted", "crashed"}
          /\ Len(trace) = Len(completed) + 1
          /\ SubSeq(trace, 1, Len(completed)) = completed
    /\ Entered("render") => Succeeded("load") /\ Succeeded("validate") /\ Succeeded("group")
    /\ report # <<>> => Succeeded("render") /\ Succeeded("save")

\* A run whose save failed: it stopped there, without a report.
SaveFailedNoReport ==
    /\ pc = "aborted"
    /\ Last(trace) = "save"
    /\ report = <<>>

\* C7: every failure the program handles ends the run with a message and a
\* non-zero exit status.
FailuresExitNonZero ==
    pc = "aborted" =>
        /\ Last(stdout).kind \in {"FileNotFoundError", "EmptyDataError", "ParserError",
                                  "KeyError", "TemplateNotFound", "OSError"}
        /\ exit_code # 0

\* C8: the age is current_year - foundation_year without clamping, and that
\* value and its word form are what the template context binds.
AgeIsPlainDifference ==
    /\ Succeeded("age") =>
        /\ years = current_year - foundation_year
        /\ year_word = RussianYearWord(current_year - foundation_year)
    /\ context # <<>> =>
        /\ context[1].winery_years = current_year - foundation_year
        /\ context[1].year_word = RussianYearWord(current_year - foundation_year)

\* A context built for a winery founded after the current year.
NegativeAgeInContext ==
    /\ context # <<>>
    /\ current_year < foundation_year
    /\ context[1].winery_years < 0

\* C9: every row lands in exactly one category's sequence, the one of its
\* own category; no key is empty; the total count equals the number of rows
\* and the sum of the per-category counts, which follow the key order.
GroupingConservesRows ==
    /\ Succeeded("group") =>
        LET rows == catalog_df.rows
        IN /\ \A j \in DOMAIN catalog : catalog[j].items # <<>>
           /\ \A a, b \in DOMAIN catalog : catalog[a].key = catalog[b].key => a = b
           /\ \A i \in DOMAIN rows : \E j \in DOMAIN catalog : catalog[j].key = rows[i]["Kategoriya"]
           /\ \A j \in DOMAIN catalog :
                Len(catalog[j].items)
                    = Cardinality({i \in DOMAIN rows : rows[i]["Kategoriya"] = catalog[j].key})
           /\ count_wines(catalog) = Len(rows)
    /\ report # <<>> =>
        /\ report[1].total = Len(catalog_df.rows)
        /\ report[1].total = SumCounts(report[1].per_category)
        /\ Len(report[1].per_category) = Len(catalog)
        /\ \A j \in DOMAIN catalog :
             report[1].per_category[j] = <<catalog[j].key, Len(catalog[j].items)>>

\* A report over several categories, one of them holding several wines.
ReportOverSeveralCategories ==
    /\ report # <<>>
    /\ Len(catalog) >= 2
    /\ \E j \in DOMAIN catalog : Len(catalog[j].items) >= 2
    /\ report[1].total >= 3

\* C10 as stated: the output file changes at most once, only after the
\* template rendered, and then holds the complete rendered text.
OutputCompleteOnceWritten ==
    /\ output_opens <= 1
    /\ output_file # output_at_start =>
        /\ Succeeded("render")
        /\ output_file = [exists |-> TRUE, text |-> html]

\* C10 amended: a run that fails before saving never opens the output path
\* and leaves the file as it was; the path is opened at most once, only after
\* the template rendered; a save that succeeds leaves exactly the rendered
\* text, and one that fails leaves the old file or a prefix of that text.
OutputWrittenOnlyAfterRender ==
    /\ output_opens <= 1
    /\ ~Entered("save") => output_opens = 0
    /\ output_opens = 0 => output_file = output_at_start
    /\ output_opens = 1 => Succeeded("render")
    /\ Succeeded("save") => output_file = [exists |-> TRUE, text |-> html]
    /\ (Entered("save") /\ ~Succeeded("save")) =>
        \/ output_file = output_at_start
        \/ output_file.exists /\ IsPrefix(output_file.text, html)

\* An existing page was replaced by the rendered text.
OldPageOverwritten ==
    /\ Succeeded("save")
    /\ output_at_start = OldPage
    /\ output_file.text = html
    /\ html # <<>>

====
